---- MODULE Spec2Model ----
(***************************************************************************)
(* The two workshop notebooks as one kernel session each: the Bayesian     *)
(* regression notebook (part 1) and the variational autoencoder template   *)
(* (part 2).  A notebook is a list of cells, a cell a list of statements;  *)
(* the kernel executes one statement at a time.  A statement that raises   *)
(* aborts its cell and leaves the kernel alive.                            *)
(***************************************************************************)
EXTENDS Integers, Sequences, FiniteSets, TLC

\* ------------------------------------------------------------- bounds
MaxRows == 2        \* rows of the regression data set X
RngMod == 2         \* states of the pseudo random generator
LossMod == 3        \* distinct values of one ELBO estimate
MaxReruns == 1      \* re-executions of a training cell in one session
MaxEpochs == 2      \* the largest value filled in for the template's EPOCHS
MaxData == 2        \* samples of the template's training and test sets
MaxBatchSize == 2   \* the largest batch_size given to setup_data_loaders
MaxCpus == 2        \* processors of the machine (n_jobs=-1 uses them all)

\* ------------------------------------------------- program constants
EPOCHS == 1000
sales_products == 2

LatentDim == 32     \* the latent features the template's comments ask for
ImgC == 1
ImgH == 28
ImgW == 28
SummaryBatch == 2   \* the batch torchsummary's summary() pushes through a module

\* Python's None is the empty option {}, a value v the option {v}.
None == {}
Some(v) == {v}
Val(o) == CHOOSE v \in o : TRUE

VARIABLES
    notebook,    \* which notebook the kernel runs
    pc,          \* the statement the kernel executes next
    bound,       \* the names bound in the kernel's namespace
    errors,      \* the statements that raised, with the exception
    rng,         \* torch's global pseudo random generator
    paramStore,  \* pyro's global parameter store (the names registered)
    lenX,        \* len(X): rows of the regression data
    W,           \* the trainable parameters: gradient updates since construction
    optState,    \* the optimizer's per-parameter state: updates it has applied
    iter,        \* the position of range(EPOCHS)'s iterator
    epoch,       \* the loop variable
    stepLoss,    \* regression: the variable loss after loss = svi.step(X, y)
    losses,      \* regression: the list losses
    stepLog,     \* the values svi.step returned in this execution of the cell
    plotted,     \* px.line(...) calls that have drawn the loss curve
    draws,       \* posterior draws made by Predictive
    trace,       \* the site shapes of the last traced run of RevenueModel
    y,           \* regression: the tensor y, one row of sales for each row of X
    model,       \* regression: the RevenueModel the training cell built
    reruns,      \* re-executions of the training cell so far
    clears,      \* pyro.clear_param_store() calls in this execution of the cell
    fill,        \* template: what the participant wrote in place of the blanks
    vae,         \* template: the VAE object (its z_dim), once built
    bIter,       \* template: the position of a data loader's iterator
    batch,       \* template: the batch the loop body works on
    epoch_loss,  \* template: the variable epoch_loss
    loss,        \* template: the list loss
    test_loss,   \* template: evaluate's accumulator
    evalCalls,   \* template: svi.evaluate_loss calls made by evaluate
    encoded,     \* template: the last Encoder.forward call, input and output
    decoded,     \* template: the last Decoder.forward call, input and output
    tsneWorkers, \* template: worker jobs of TSNE(n_jobs=-1) still running
    total_epoch_loss_train,  \* template: the variable of that name
    evalResult   \* template: what evaluate returned

kernelVars == <<notebook, bound, errors, rng, paramStore, W, optState, stepLog,
                reruns, clears>>
regVars == <<lenX, iter, epoch, stepLoss, losses, plotted, draws, trace, y,
            model>>
vaeVars == <<fill, vae, bIter, batch, epoch_loss, loss, test_loss, evalCalls,
             encoded, decoded, tsneWorkers, total_epoch_loss_train, evalResult>>

vars == <<pc, kernelVars, regVars, vaeVars>>

\* ------------------------------------------------------------ programs
\* The regression notebook's code cells, top to bottom.
RegCells ==
    << <<"r_install">>,
       <<"r_import">>,
       <<"r_load">>,
       <<"r_class_model">>,
       <<"r_render">>,
       <<"r_trace">>,
       <<"r_class_guide">>,
       <<"r_clear", "r_build", "r_epochs", "r_losses", "r_for", "r_step",
         "r_append", "r_plot">>,
       <<"r_predictive", "r_draw", "r_beta", "r_fig">> >>

VaeCells_noClear ==
    << <<"v_setup">>,
       <<"v_def_loaders">>,
       <<"v_class_encoder">>,
       <<"v_summary_encoder">>,
       <<"v_class_decoder">>,
       <<"v_summary_decoder">>,
       <<"v_class_vae">>,
       <<"v_vae", "v_optimizer", "v_svi">>,
       <<"v_epochs", "v_loaders", "v_loss", "v_range", "v_for",
         "v_epoch_loss", "v_batch_for", "v_step", "v_normalize", "v_append",
         "v_print", "v_plot">>,
       <<"e_def", "e_call", "e_init", "e_for", "e_loss", "e_normalize",
         "e_return">>,
       <<"t_latent", "t_labels", "t_concat", "t_tsne", "t_fit", "t_join",
         "t_scatter">> >>

\* The template's code cells, top to bottom, up to the t-SNE cell.  evaluate is
\* called once, so its body follows its call; fit_transform is entered at t_fit
\* and returns at t_join.
VaeCells ==
    << <<"v_setup">>,
       <<"v_def_loaders">>,
       <<"v_class_encoder">>,
       <<"v_summary_encoder">>,
       <<"v_class_decoder">>,
       <<"v_summary_decoder">>,
       <<"v_class_vae">>,
       <<"v_vae", "v_optimizer", "v_svi">>,
       <<"v_epochs", "v_loaders", "v_clear", "v_loss", "v_range", "v_for",
         "v_epoch_loss", "v_batch_for", "v_step", "v_normalize", "v_append",
         "v_print", "v_plot">>,
       <<"e_def", "e_call", "e_init", "e_for", "e_loss", "e_normalize",
         "e_return">>,
       <<"t_latent", "t_labels", "t_concat", "t_tsne", "t_fit", "t_join",
         "t_scatter">> >>

Cells(nb) == IF nb = "regression" THEN RegCells ELSE VaeCells

\* The cell a statement belongs to.
CellOf(nb, l) ==
    CHOOSE i \in 1..Len(Cells(nb)) :
        \E j \in 1..Len(Cells(nb)[i]) : Cells(nb)[i][j] = l

StmtOf(nb, l) ==
    CHOOSE j \in 1..Len(Cells(nb)[CellOf(nb, l)]) : Cells(nb)[CellOf(nb, l)][j] = l

\* The first statement of the cell after cell i: the kernel runs the cells in order.
FirstOfNext(nb, i) ==
    IF i < Len(Cells(nb)) THEN Cells(nb)[i + 1][1] ELSE "done"

\* The statements of a notebook.
StmtsOf(nb) ==
    UNION {{Cells(nb)[i][j] : j \in 1..Len(Cells(nb)[i])} : i \in 1..Len(Cells(nb))}

\* The statement after each statement: the next one of its cell, or the next cell.
SuccTable ==
    [nb \in {"regression", "vae"} |->
        [l \in StmtsOf(nb) |->
            LET i == CellOf(nb, l)
                j == StmtOf(nb, l)
            IN IF j < Len(Cells(nb)[i]) THEN Cells(nb)[i][j + 1]
               ELSE FirstOfNext(nb, i)]]

Succ(nb, l) == SuccTable[nb][l]

\* Where the kernel is after each statement raised: its cell is abandoned.
AbortTable ==
    [nb \in {"regression", "vae"} |->
        [l \in StmtsOf(nb) |-> FirstOfNext(nb, CellOf(nb, l))]]

Abort(nb, l) == AbortTable[nb][l]

\* Statements that only define or display something and touch no modelled state.
PlainStmts == {"r_install", "r_import", "r_class_model", "r_render",
               "r_class_guide", "r_beta", "r_fig",
               "v_setup", "v_def_loaders", "v_class_encoder", "v_class_decoder",
               "v_class_vae", "e_return", "t_labels", "t_concat", "t_tsne",
               "t_scatter"}

\* ------------------------------------------------------- the framework
\* One ELBO estimate: a function of the parameters, the data and the random draws.
ElboEstimate(w, r, data) == 1 + ((w + r + data) % LossMod)

\* A sampling statement advances the generator.
NextRng(r) == (r + 1) % RngMod

\* A quotient a / b of Python's true division, kept exact as the pair <<a, b>>.
TrueDiv(a, b) == <<a, b>>

\* Two quotients are the same number.
SameNumber(p, q) == p[1] * q[2] = q[1] * p[2]

\* range(n) yields another value at position i.
RangeHasNext(i, n) == i < n

\* pyro.clear_param_store()
ClearedStore(store) == {}

\* ---------------------------------------------------------- regression
\* The shape of the "noise" site of RevenueModel.forward on n rows:
\* HalfNormal(tensor([1000., 1000.])).expand([1, 2]).to_event(1), outside the plates.
NoiseShape(n) == <<1, sales_products>>

\* RevenueModel.forward: the shape of every site of one run on n rows.
RevenueModel_forward(n) ==
    [ y_hat |-> <<n, sales_products>>,
      noise |-> NoiseShape(n),
      obs   |-> <<n, sales_products>> ]

\* The defaults of RevenueModel.__init__: [0.] * 2 and [10_000.] * 2.
bias_lower_bound == <<0, 0>>

bias_upper_bound == <<10000, 10000>>

\* RevenueModel.__init__: linear_layer.bias is sampled from
\* Uniform(tensor(bias_lower_bound), tensor(bias_upper_bound)).to_event(1).
RevenueModel_init(lower, upper) == [bias_low |-> lower, bias_high |-> upper]

\* The values a product's sales take in the data file.
SalesLevels == {0, 10000}

\* The tensors y of n rows, one column for each product, values among levels.
SalesData(n, levels) == [1..n -> [1..sales_products -> levels]]

\* The names a plain statement binds.
Binds(l) ==
    CASE l = "r_class_model" -> {"RevenueModel"}
      [] l = "r_class_guide" -> {"RevenueGuide"}
      [] l = "r_beta" -> {"beta_hat", "beta_hat_prime"}
      [] l = "r_fig" -> {"fig"}
      [] l = "v_def_loaders" -> {"setup_data_loaders"}
      [] l = "v_class_encoder" -> {"Encoder"}
      [] l = "v_class_decoder" -> {"Decoder"}
      [] l = "v_class_vae" -> {"VAE"}
      [] l = "t_labels" -> {"labels"}
      [] l = "t_concat" -> {"latent_images"}
      [] l = "t_tsne" -> {"tsne"}
      [] OTHER -> {}

ExecPlain ==
    /\ pc \in PlainStmts
    /\ bound' = bound \cup Binds(pc)
    /\ pc' = Succ(notebook, pc)
    /\ UNCHANGED <<notebook, errors, rng, paramStore, W, optState, stepLog,
                   reruns, clears, regVars, vaeVars>>

\* X = torch.tensor(media...); y = torch.tensor(sales...)
RegLoad ==
    /\ pc = "r_load"
    /\ bound' = bound \cup {"X", "y"}
    /\ pc' = Succ(notebook, pc)
    /\ UNCHANGED <<notebook, errors, rng, paramStore, W, optState, stepLog,
                   reruns, clears, regVars, vaeVars>>

\* trace = poutine.trace(RevenueModel()).get_trace(X, y)
RegTrace ==
    /\ pc = "r_trace"
    /\ trace' = Some(RevenueModel_forward(lenX))
    /\ rng' = NextRng(rng)
    /\ pc' = Succ(notebook, pc)
    /\ UNCHANGED <<notebook, bound, errors, paramStore, W, optState, stepLog,
                   reruns, clears, lenX, iter, epoch, stepLoss, losses, plotted,
                   draws, vaeVars, y, model>>

\* pyro.clear_param_store()
RegClear ==
    /\ pc = "r_clear"
    /\ paramStore' = ClearedStore(paramStore)
    /\ clears' = clears + 1
    /\ pc' = Succ(notebook, pc)
    /\ UNCHANGED <<notebook, bound, errors, rng, W, optState, stepLog, reruns,
                   regVars, vaeVars>>

\* model = RevenueModel(); guide = RevenueGuide(model); optimizer = Adam(...);
\* loss = Trace_ELBO(...); svi = SVI(...): all built anew in the training cell.
RegBuild ==
    /\ pc = "r_build"
    /\ model' = Some(RevenueModel_init(bias_lower_bound, bias_upper_bound))
    /\ W' = 0
    /\ optState' = 0
    /\ bound' = bound \cup {"model", "guide", "optimizer", "loss", "svi"}
    /\ pc' = Succ(notebook, pc)
    /\ UNCHANGED <<notebook, errors, rng, paramStore, stepLog, reruns, clears,
                   lenX, iter, epoch, stepLoss, losses, plotted, draws, trace, y,
                   vaeVars>>

\* EPOCHS = 1_000
RegEpochs ==
    /\ pc = "r_epochs"
    /\ bound' = bound \cup {"EPOCHS"}
    /\ pc' = Succ(notebook, pc)
    /\ UNCHANGED <<notebook, errors, rng, paramStore, W, optState, stepLog,
                   reruns, clears, regVars, vaeVars>>

\* losses = [] and the iterator of range(EPOCHS)
RegLosses ==
    /\ pc = "r_losses"
    /\ losses' = <<>>
    /\ iter' = 0
    /\ bound' = bound \cup {"losses"}
    /\ pc' = Succ(notebook, pc)
    /\ UNCHANGED <<notebook, errors, rng, paramStore, W, optState, stepLog,
                   reruns, clears, lenX, epoch, stepLoss, plotted, draws, trace,
                   vaeVars, y, model>>

RegLoopContinues_short(i) == RangeHasNext(i, EPOCHS - 1)

\* The training loop goes round once more at iterator position i.
RegLoopContinues(i) == RangeHasNext(i, EPOCHS)

\* for epoch in tqdm(range(EPOCHS), total=EPOCHS):
RegFor ==
    /\ pc = "r_for"
    /\ IF RegLoopContinues(iter)
       THEN /\ epoch' = iter
            /\ iter' = iter + 1
            /\ pc' = "r_step"
       ELSE /\ pc' = "r_plot"
            /\ UNCHANGED <<epoch, iter>>
    /\ UNCHANGED <<kernelVars, lenX, stepLoss, losses, plotted, draws, trace,
                   vaeVars, y, model>>

\* The names a step of the regression's SVI registers: the autoguide's parameters.
RegParams == {"AutoDiagonalNormal.loc", "AutoDiagonalNormal.scale"}

\* loss = svi.step(X, y)
RegStep ==
    /\ pc = "r_step"
    /\ stepLoss' = ElboEstimate(W, rng, lenX)
    /\ stepLog' = Append(stepLog, ElboEstimate(W, rng, lenX))
    /\ paramStore' = paramStore \cup RegParams
    /\ W' = W + 1
    /\ optState' = optState + 1
    /\ rng' = NextRng(rng)
    /\ pc' = "r_append"
    /\ UNCHANGED <<notebook, bound, errors, reruns, clears, lenX, iter, epoch,
                   losses, plotted, draws, trace, vaeVars, y, model>>

RegEntry_raw(l, n) == TrueDiv(l, 1)

\* The entry appended for one step: loss / len(X).
RegEntry(l, n) == TrueDiv(l, n)

\* losses.append(loss / len(X))
RegAppend ==
    /\ pc = "r_append"
    /\ losses' = Append(losses, RegEntry(stepLoss, lenX))
    /\ pc' = "r_for"
    /\ UNCHANGED <<kernelVars, lenX, iter, epoch, stepLoss, plotted, draws,
                   trace, vaeVars, y, model>>

\* px.line(losses), and px.line(loss) in the template
Plot ==
    /\ pc \in {"r_plot", "v_plot"}
    /\ plotted' = plotted + 1
    /\ pc' = Succ(notebook, pc)
    /\ UNCHANGED <<kernelVars, lenX, iter, epoch, stepLoss, losses, draws, trace,
                   vaeVars, y, model>>

\* predictive = pyro.infer.Predictive(model=model, guide=guide, num_samples=10_000)
RegPredictive ==
    /\ pc = "r_predictive"
    /\ bound' = bound \cup {"predictive"}
    /\ pc' = Succ(notebook, pc)
    /\ UNCHANGED <<notebook, errors, rng, paramStore, W, optState, stepLog,
                   reruns, clears, regVars, vaeVars>>

\* samples = predictive(X): draws from the guide, takes no gradient step.
RegDraw ==
    /\ pc = "r_draw"
    /\ draws' = draws + 1
    /\ rng' = NextRng(rng)
    /\ bound' = bound \cup {"samples"}
    /\ pc' = Succ(notebook, pc)
    /\ UNCHANGED <<notebook, errors, paramStore, W, optState, stepLog, reruns,
                   clears, lenX, iter, epoch, stepLoss, losses, plotted, trace,
                   vaeVars, y, model>>

\* ------------------------------------------------------------ template
\* What a participant can write in place of the template's blanks.  None is the
\* blank as shipped.
Pixels == ImgC * ImgH * ImgW

Loaders == [train : 1..MaxData, test : 1..MaxData, batch_size : 1..MaxBatchSize]

Fills ==
    [ EPOCHS  : {None} \cup {Some(n) : n \in 1..MaxEpochs},
      loaders : {None} \cup {Some(l) : l \in Loaders},
      svi     : BOOLEAN,
      enc     : {None, Some(LatentDim)},
      dec     : {None, Some(Pixels), Some(2 * Pixels)},
      vae     : {None, Some(LatentDim), Some(LatentDim \div 2)} ]

\* The template as shipped: every blank is None.
Shipped ==
    [ EPOCHS |-> None, loaders |-> None, svi |-> FALSE, enc |-> None,
      dec |-> None, vae |-> None ]

\* len(loader): the batches of n samples, batch_size bs, drop_last=False.
NBatches(n, bs) == (n + bs - 1) \div bs

\* The samples of batch b (from 1).
BatchLen(n, bs, b) == IF b * bs <= n THEN bs ELSE n - (b - 1) * bs

\* Encoder.forward on n images: return z_loc, z_scale.
Encoder_forward(e, n) ==
    IF e = None THEN <<None, None>>
    ELSE <<Some(<<n, Val(e)>>), Some(<<n, Val(e)>>)>>

\* Decoder.forward on n latent vectors, loc_out holding f features for each:
\* return loc_out.reshape(-1, 1, 28, 28).  None: the call raises.
Decoder_forward(f, n) ==
    IF f = None THEN None
    ELSE IF (n * Val(f)) % Pixels # 0 THEN None
    ELSE Some(<<(n * Val(f)) \div Pixels, ImgC, ImgH, ImgW>>)

\* The statement at pc raises exc: its cell is abandoned.
Raise(exc) ==
    /\ errors' = errors \cup {<<pc, exc>>}
    /\ pc' = Abort(notebook, pc)

\* summary(Encoder(), (1, 28, 28))
VaeSummaryEncoder ==
    /\ pc = "v_summary_encoder"
    /\ encoded' = Some([n |-> SummaryBatch,
                        out |-> Encoder_forward(fill.enc, SummaryBatch)])
    /\ rng' = NextRng(rng)
    /\ pc' = Succ(notebook, pc)
    /\ UNCHANGED <<notebook, bound, errors, paramStore, W, optState, stepLog,
                   reruns, clears, regVars, fill, vae, bIter, batch, epoch_loss,
                   loss, test_loss, evalCalls, decoded, tsneWorkers,
                   total_epoch_loss_train, evalResult>>

\* summary(Decoder(), (32,))
VaeSummaryDecoder ==
    /\ pc = "v_summary_decoder"
    /\ decoded' = Some([n |-> SummaryBatch, width |-> LatentDim,
                        out |-> Decoder_forward(fill.dec, SummaryBatch)])
    /\ rng' = NextRng(rng)
    /\ IF Decoder_forward(fill.dec, SummaryBatch) = None
       THEN Raise(IF fill.dec = None THEN "AttributeError" ELSE "RuntimeError")
       ELSE pc' = Succ(notebook, pc) /\ UNCHANGED errors
    /\ UNCHANGED <<notebook, bound, paramStore, W, optState, stepLog, reruns,
                   clears, regVars, fill, vae, bIter, batch, epoch_loss, loss,
                   test_loss, evalCalls, encoded, tsneWorkers,
                   total_epoch_loss_train, evalResult>>

\* vae = VAE()
VaeBuildVae ==
    /\ pc = "v_vae"
    /\ vae' = Some([z_dim |-> fill.vae])
    /\ W' = 0
    /\ bound' = bound \cup {"vae"}
    /\ pc' = Succ(notebook, pc)
    /\ UNCHANGED <<notebook, errors, rng, paramStore, optState, stepLog, reruns,
                   clears, regVars, fill, bIter, batch, epoch_loss, loss,
                   test_loss, evalCalls, encoded, decoded, tsneWorkers,
                   total_epoch_loss_train, evalResult>>

\* optimizer = None, or the optimizer filled in
VaeBuildOptimizer ==
    /\ pc = "v_optimizer"
    /\ optState' = 0
    /\ bound' = bound \cup {"optimizer"}
    /\ pc' = Succ(notebook, pc)
    /\ UNCHANGED <<notebook, errors, rng, paramStore, W, stepLog, reruns, clears,
                   regVars, vaeVars>>

\* svi = pyro.infer.SVI(model=None, guide=None, optim=optimizer, loss=None):
\* SVI refuses an optim that is no PyroOptim.
VaeBuildSvi ==
    /\ pc = "v_svi"
    /\ IF fill.svi
       THEN /\ bound' = bound \cup {"svi"}
            /\ pc' = Succ(notebook, pc)
            /\ UNCHANGED errors
       ELSE /\ Raise("ValueError")
            /\ UNCHANGED bound
    /\ UNCHANGED <<notebook, rng, paramStore, W, optState, stepLog, reruns,
                   clears, regVars, vaeVars>>

\* EPOCHS = None, or the number filled in
VaeEpochs ==
    /\ pc = "v_epochs"
    /\ bound' = bound \cup {"EPOCHS"}
    /\ pc' = Succ(notebook, pc)
    /\ UNCHANGED <<notebook, errors, rng, paramStore, W, optState, stepLog,
                   reruns, clears, regVars, vaeVars>>

UnpackRaises_never(v) == FALSE

\* Unpacking v into two names raises: None is not iterable.
UnpackRaises(v) == v = None

\* train_loader, test_loader = None, or = setup_data_loaders(...)
VaeLoaders ==
    /\ pc = "v_loaders"
    /\ IF UnpackRaises(fill.loaders)
       THEN /\ Raise("TypeError")
            /\ UNCHANGED bound
       ELSE /\ bound' = bound \cup {"train_loader", "test_loader"}
            /\ pc' = Succ(notebook, pc)
            /\ UNCHANGED errors
    /\ UNCHANGED <<notebook, rng, paramStore, W, optState, stepLog, reruns,
                   clears, regVars, vaeVars>>

\* pyro.clear_param_store()
VaeClear ==
    /\ pc = "v_clear"
    /\ paramStore' = ClearedStore(paramStore)
    /\ clears' = clears + 1
    /\ pc' = Succ(notebook, pc)
    /\ UNCHANGED <<notebook, bound, errors, rng, W, optState, stepLog, reruns,
                   regVars, vaeVars>>

\* loss = []
VaeLoss ==
    /\ pc = "v_loss"
    /\ loss' = <<>>
    /\ bound' = bound \cup {"loss"}
    /\ pc' = Succ(notebook, pc)
    /\ UNCHANGED <<notebook, errors, rng, paramStore, W, optState, stepLog,
                   reruns, clears, regVars, fill, vae, bIter, batch, epoch_loss,
                   test_loss, evalCalls, encoded, decoded, tsneWorkers,
                   total_epoch_loss_train, evalResult>>

\* tqdm(range(EPOCHS), total=EPOCHS): range(None) raises.
VaeRange ==
    /\ pc = "v_range"
    /\ IF fill.EPOCHS = None
       THEN /\ Raise("TypeError")
            /\ UNCHANGED iter
       ELSE /\ iter' = 0
            /\ pc' = Succ(notebook, pc)
            /\ UNCHANGED errors
    /\ UNCHANGED <<notebook, bound, rng, paramStore, W, optState, stepLog,
                   reruns, clears, lenX, epoch, stepLoss, losses, plotted, draws,
                   trace, vaeVars, y, model>>

\* for epoch in tqdm(range(EPOCHS), total=EPOCHS):
VaeFor ==
    /\ pc = "v_for"
    /\ IF RangeHasNext(iter, Val(fill.EPOCHS))
       THEN /\ epoch' = iter
            /\ iter' = iter + 1
            /\ pc' = "v_epoch_loss"
       ELSE /\ pc' = "v_plot"
            /\ UNCHANGED <<epoch, iter>>
    /\ UNCHANGED <<kernelVars, lenX, stepLoss, losses, plotted, draws, trace,
                   vaeVars, y, model>>

EpochLossAtStart_carry(before) == before

\* The value epoch_loss gets at the top of the loop body: epoch_loss = 0.
EpochLossAtStart(before) == 0

\* epoch_loss = 0, and the iterator of the shuffling train_loader
VaeEpochLoss ==
    /\ pc = "v_epoch_loss"
    /\ epoch_loss' = EpochLossAtStart(epoch_loss)
    /\ bIter' = 0
    /\ rng' = NextRng(rng)
    /\ pc' = "v_batch_for"
    /\ UNCHANGED <<notebook, bound, errors, paramStore, W, optState, stepLog,
                   reruns, clears, regVars, fill, vae, batch, loss, test_loss,
                   evalCalls, encoded, decoded, tsneWorkers,
                   total_epoch_loss_train, evalResult>>

\* for batch, _ in train_loader:
VaeBatchFor ==
    /\ pc = "v_batch_for"
    /\ LET l == Val(fill.loaders)
       IN IF RangeHasNext(bIter, NBatches(l.train, l.batch_size))
          THEN /\ batch' = bIter + 1
               /\ bIter' = bIter + 1
               /\ pc' = "v_step"
          ELSE /\ pc' = "v_normalize"
               /\ UNCHANGED <<batch, bIter>>
    /\ UNCHANGED <<kernelVars, regVars, fill, vae, epoch_loss, loss, test_loss,
                   evalCalls, encoded, decoded, tsneWorkers,
                   total_epoch_loss_train, evalResult>>

\* Running guide and model on a batch raises: a blank of the VAE class, of the
\* encoder or of the decoder is unfilled, or their shapes do not fit.
ElboRaises(f) ==
    \/ f.vae = None
    \/ f.enc = None
    \/ f.enc # f.vae
    \/ f.dec # Some(Pixels)

\* The guide got as far as its sample statement without raising.
GuideRuns(f) == f.vae # None /\ f.enc # None

\* The names guide and model have registered with pyro.module when the run ends.
Registered(f) ==
    (IF f.vae # None THEN {"encoder"} ELSE {})
        \cup (IF GuideRuns(f) THEN {"decoder"} ELSE {})

\* The last Encoder.forward call once guide (and model) have run on n samples.
EncodedBy(f, n, before) ==
    IF f.vae # None THEN Some([n |-> n, out |-> Encoder_forward(f.enc, n)])
    ELSE before

\* The last Decoder.forward call once guide and model have run on n samples.
DecodedBy(f, n, before) ==
    IF GuideRuns(f) /\ f.enc = f.vae
    THEN Some([n |-> n, width |-> Val(f.enc), out |-> Decoder_forward(f.dec, n)])
    ELSE before

\* The parameters after one gradient step of svi.step.
SteppedParams(w) == w + 1

\* epoch_loss += svi.step(batch).  A call that raises is logged as 0.
VaeStep ==
    /\ pc = "v_step"
    /\ LET l == Val(fill.loaders)
           n == BatchLen(l.train, l.batch_size, batch)
       IN IF "svi" \notin bound
          THEN /\ Raise("NameError")
               /\ UNCHANGED <<rng, paramStore, W, optState, stepLog, epoch_loss,
                              encoded, decoded>>
          ELSE /\ paramStore' = paramStore \cup Registered(fill)
               /\ encoded' = EncodedBy(fill, n, encoded)
               /\ decoded' = DecodedBy(fill, n, decoded)
               /\ rng' = NextRng(rng)
               /\ IF ElboRaises(fill)
                  THEN /\ Raise("RuntimeError")
                       /\ stepLog' = Append(stepLog, 0)
                       /\ UNCHANGED <<W, optState, epoch_loss>>
                  ELSE /\ epoch_loss' = epoch_loss + ElboEstimate(W, rng, batch)
                       /\ stepLog' = Append(stepLog, ElboEstimate(W, rng, batch))
                       /\ W' = SteppedParams(W)
                       /\ optState' = optState + 1
                       /\ pc' = "v_batch_for"
                       /\ UNCHANGED errors
    /\ UNCHANGED <<notebook, bound, reruns, clears, regVars, fill, vae, bIter,
                   batch, loss, test_loss, evalCalls, tsneWorkers,
                   total_epoch_loss_train, evalResult>>

\* normalizer_train = len(train_loader.dataset)
Normalizer(l) == l.train

\* total_epoch_loss_train = epoch_loss / normalizer_train
VaeNormalize ==
    /\ pc = "v_normalize"
    /\ total_epoch_loss_train' =
           Some(TrueDiv(epoch_loss, Normalizer(Val(fill.loaders))))
    /\ pc' = "v_append"
    /\ UNCHANGED <<kernelVars, regVars, fill, vae, bIter, batch, epoch_loss, loss,
                   test_loss, evalCalls, encoded, decoded, tsneWorkers,
                   evalResult>>

\* loss.append(total_epoch_loss_train)
VaeAppend ==
    /\ pc = "v_append"
    /\ loss' = Append(loss, Val(total_epoch_loss_train))
    /\ pc' = "v_print"
    /\ UNCHANGED <<kernelVars, regVars, fill, vae, bIter, batch, epoch_loss,
                   test_loss, evalCalls, encoded, decoded, tsneWorkers,
                   total_epoch_loss_train, evalResult>>

\* if (epoch % 10) == 0: print(total_epoch_loss_train); then the loop goes round
VaePrint ==
    /\ pc = "v_print"
    /\ pc' = "v_for"
    /\ UNCHANGED <<kernelVars, regVars, vaeVars>>

\* def evaluate(svi, test_loader): ...
EvalDef ==
    /\ pc = "e_def"
    /\ bound' = bound \cup {"evaluate"}
    /\ pc' = Succ(notebook, pc)
    /\ UNCHANGED <<notebook, errors, rng, paramStore, W, optState, stepLog,
                   reruns, clears, regVars, vaeVars>>

\* evaluate(svi=svi, test_loader=test_loader): the arguments are looked up.
EvalCall ==
    /\ pc = "e_call"
    /\ IF {"svi", "test_loader"} \subseteq bound
       THEN pc' = Succ(notebook, pc) /\ UNCHANGED errors
       ELSE Raise("NameError")
    /\ UNCHANGED <<notebook, bound, rng, paramStore, W, optState, stepLog,
                   reruns, clears, regVars, vaeVars>>

\* test_loss = 0., and the iterator of test_loader
EvalInit ==
    /\ pc = "e_init"
    /\ test_loss' = 0
    /\ evalCalls' = 0
    /\ bIter' = 0
    /\ pc' = "e_for"
    /\ UNCHANGED <<kernelVars, regVars, fill, vae, batch, epoch_loss, loss,
                   encoded, decoded, tsneWorkers, total_epoch_loss_train,
                   evalResult>>

\* for x, _ in test_loader:
EvalFor ==
    /\ pc = "e_for"
    /\ LET l == Val(fill.loaders)
       IN IF RangeHasNext(bIter, NBatches(l.test, l.batch_size))
          THEN /\ batch' = bIter + 1
               /\ bIter' = bIter + 1
               /\ pc' = "e_loss"
          ELSE /\ pc' = "e_normalize"
               /\ UNCHANGED <<batch, bIter>>
    /\ UNCHANGED <<kernelVars, regVars, fill, vae, epoch_loss, loss, test_loss,
                   evalCalls, encoded, decoded, tsneWorkers,
                   total_epoch_loss_train, evalResult>>

EvaluatedParams_step(w) == w + 1

\* The parameters after svi.evaluate_loss: it computes the loss and takes no step.
EvaluatedParams(w) == w

\* The optimizer's state after svi.evaluate_loss.
EvaluatedOpt(o) == o

\* test_loss += svi.evaluate_loss(x)
EvalLoss ==
    /\ pc = "e_loss"
    /\ LET l == Val(fill.loaders)
           n == BatchLen(l.test, l.batch_size, batch)
       IN /\ paramStore' = paramStore \cup Registered(fill)
          /\ encoded' = EncodedBy(fill, n, encoded)
          /\ decoded' = DecodedBy(fill, n, decoded)
          /\ rng' = NextRng(rng)
          /\ evalCalls' = evalCalls + 1
          /\ IF ElboRaises(fill)
             THEN /\ Raise("RuntimeError")
                  /\ UNCHANGED <<W, optState, test_loss>>
             ELSE /\ test_loss' = test_loss + ElboEstimate(W, rng, batch)
                  /\ W' = EvaluatedParams(W)
                  /\ optState' = EvaluatedOpt(optState)
                  /\ pc' = "e_for"
                  /\ UNCHANGED errors
    /\ UNCHANGED <<notebook, bound, stepLog, reruns, clears, regVars, fill, vae,
                   bIter, batch, epoch_loss, loss, tsneWorkers,
                   total_epoch_loss_train, evalResult>>

\* normalizer_test = len(test_loader.dataset); return test_loss / normalizer_test
EvalNormalize ==
    /\ pc = "e_normalize"
    /\ evalResult' = Some(TrueDiv(test_loss, Val(fill.loaders).test))
    /\ pc' = Succ(notebook, pc)
    /\ UNCHANGED <<kernelVars, regVars, fill, vae, bIter, batch, epoch_loss, loss,
                   test_loss, evalCalls, encoded, decoded, tsneWorkers,
                   total_epoch_loss_train>>

\* latent_images = [vae.encoder(img)[0].detach().cpu().numpy() for img, _ in test_loader]
TsneLatent ==
    /\ pc = "t_latent"
    /\ IF "test_loader" \notin bound
       THEN Raise("NameError") /\ UNCHANGED <<encoded, rng>>
       ELSE IF fill.vae = None
       THEN Raise("TypeError") /\ UNCHANGED <<encoded, rng>>
       ELSE LET l == Val(fill.loaders)
                last == NBatches(l.test, l.batch_size)
                n == BatchLen(l.test, l.batch_size, last)
            IN /\ encoded' = Some([n |-> n, out |-> Encoder_forward(fill.enc, n)])
               /\ UNCHANGED rng
               /\ IF fill.enc = None
                  THEN Raise("AttributeError")
                  ELSE pc' = Succ(notebook, pc) /\ UNCHANGED errors
    /\ UNCHANGED <<notebook, bound, paramStore, W, optState, stepLog, reruns,
                   clears, regVars, fill, vae, bIter, batch, epoch_loss, loss,
                   test_loss, evalCalls, decoded, tsneWorkers,
                   total_epoch_loss_train, evalResult>>

\* latent_embedding = tsne.fit_transform(latent_images) is entered: with
\* n_jobs=-1 it starts one worker job for each processor of the machine.
TsneFit ==
    /\ pc = "t_fit"
    /\ \E cpus \in 1..MaxCpus : tsneWorkers' = cpus
    /\ pc' = "t_join"
    /\ UNCHANGED <<kernelVars, regVars, fill, vae, bIter, batch, epoch_loss, loss,
                   test_loss, evalCalls, encoded, decoded,
                   total_epoch_loss_train, evalResult>>

\* One worker job of fit_transform ends.
TsneWorkerDone ==
    /\ tsneWorkers > 0
    /\ tsneWorkers' = tsneWorkers - 1
    /\ UNCHANGED <<pc, kernelVars, regVars, fill, vae, bIter, batch, epoch_loss,
                   loss, test_loss, evalCalls, encoded, decoded,
                   total_epoch_loss_train, evalResult>>

FitReturns_early(workers) == TRUE

\* fit_transform returns once its worker jobs have ended.
FitReturns(workers) == workers = 0

TsneJoin ==
    /\ pc = "t_join"
    /\ FitReturns(tsneWorkers)
    /\ pc' = Succ(notebook, pc)
    /\ UNCHANGED <<kernelVars, regVars, vaeVars>>

\* -------------------------------------------------------------- session
\* The first statement of the notebook's training cell.
TrainCellStart(nb) == IF nb = "regression" THEN "r_clear" ELSE "v_epochs"

\* Where the user can execute the training cell again: the cell has run and no
\* cell is being executed.
AfterTraining(nb) ==
    IF nb = "regression" THEN {"r_predictive", "done"} ELSE {"e_def", "done"}

\* The user executes the training cell again, then goes on downwards from it.
ReExecuteTrainingCell ==
    /\ pc \in AfterTraining(notebook)
    /\ reruns < MaxReruns
    /\ reruns' = reruns + 1
    /\ stepLog' = <<>>
    /\ clears' = 0
    /\ pc' = TrainCellStart(notebook)
    /\ UNCHANGED <<notebook, bound, errors, rng, paramStore, W, optState, regVars,
                   vaeVars>>

\* A fresh kernel on one of the notebooks, whatever the data file holds.
Boot ==
    /\ notebook \in {"regression", "vae"}
    /\ pc = Cells(notebook)[1][1]
    /\ bound = {}
    /\ errors = {}
    /\ rng \in 0..(RngMod - 1)
    /\ paramStore = {}
    /\ lenX \in (IF notebook = "regression" THEN 1..MaxRows ELSE {1})
    /\ W = 0
    /\ optState = 0
    /\ iter = 0
    /\ epoch = 0
    /\ stepLoss = 0
    /\ losses = <<>>
    /\ stepLog = <<>>
    /\ plotted = 0
    /\ draws = 0
    /\ trace = None
    /\ model = None
    /\ reruns = 0
    /\ clears = 0
    /\ fill \in (IF notebook = "vae" THEN Fills ELSE {Shipped})
    /\ vae = None
    /\ bIter = 0
    /\ batch = 0
    /\ epoch_loss = 0
    /\ loss = <<>>
    /\ test_loss = 0
    /\ evalCalls = 0
    /\ encoded = None
    /\ decoded = None
    /\ tsneWorkers = 0
    /\ total_epoch_loss_train = None
    /\ evalResult = None

\* A session on a data file whose sales are all of one level.
Init ==
    /\ Boot
    /\ y \in SalesData(lenX, {0})

\* A session of the regression notebook on any data file of lenX rows.
InitData ==
    /\ Boot
    /\ notebook = "regression"
    /\ y \in SalesData(lenX, SalesLevels)

\* The regression notebook's statements, top to bottom.
RunRegression ==
    \/ ExecPlain
    \/ RegLoad
    \/ RegTrace
    \/ RegClear
    \/ RegBuild
    \/ RegEpochs
    \/ RegLosses
    \/ RegFor
    \/ RegStep
    \/ RegAppend
    \/ Plot
    \/ RegPredictive
    \/ RegDraw

RunAll ==
    \/ ExecPlain
    \/ RegLoad
    \/ RegTrace
    \/ RegClear
    \/ RegBuild
    \/ RegEpochs
    \/ RegLosses
    \/ RegFor
    \/ RegStep
    \/ RegAppend
    \/ Plot
    \/ RegPredictive
    \/ RegDraw
    \/ VaeSummaryEncoder
    \/ VaeSummaryDecoder
    \/ VaeBuildVae
    \/ VaeBuildOptimizer
    \/ VaeBuildSvi
    \/ VaeEpochs
    \/ VaeLoaders
    \/ VaeClear
    \/ VaeLoss
    \/ VaeRange
    \/ VaeFor
    \/ VaeEpochLoss
    \/ VaeBatchFor
    \/ VaeStep
    \/ VaeNormalize
    \/ VaeAppend
    \/ VaePrint
    \/ EvalDef
    \/ EvalCall
    \/ EvalInit
    \/ EvalFor
    \/ EvalLoss
    \/ EvalNormalize
    \/ TsneLatent
    \/ TsneFit
    \/ TsneWorkerDone
    \/ TsneJoin

Next == RunAll \/ ReExecuteTrainingCell

\* An interactive session: the cells in order, the training cell possibly again.
Spec == Init /\ [][Next]_vars

\* One run of the notebook top to bottom, every cell once.
SpecRunAll == Init /\ [][RunAll]_vars

\* One run of the regression notebook top to bottom, on any data file.
SpecData == InitData /\ [][RunRegression]_vars


\* --------------------------------------------------------------- claims
RegAfterLoop == {"r_plot", "r_predictive", "r_draw", "r_beta", "r_fig", "done"}

RegLoopStmts == {"r_for", "r_step", "r_append"}

RegLoop == RegFor \/ RegStep \/ RegAppend

\* C1: the regression's training loop calls svi.step(X, y) exactly EPOCHS
\* (1000) times and then ends (every round advances the iterator, which never
\* passes EPOCHS, and the loop always has a next step); when it has ended,
\* losses has exactly EPOCHS entries, and entry i is what the i-th step
\* returned divided by len(X).
C1_FixedEpochs ==
    notebook = "regression" =>
        /\ iter <= EPOCHS
        /\ pc \in RegLoopStmts => ENABLED RegLoop
        /\ pc = "r_for" => (Len(stepLog) = iter /\ Len(losses) = iter)
        /\ pc \in RegAfterLoop =>
              /\ Len(stepLog) = EPOCHS
              /\ Len(losses) = EPOCHS
              /\ \A i \in 1..EPOCHS : losses[i] = TrueDiv(stepLog[i], lenX)

\* C1's case: the loop has ended with all its entries.
C1_Witness ==
    /\ notebook = "regression"
    /\ pc = "r_plot"
    /\ Len(losses) = EPOCHS
    /\ losses[EPOCHS] # losses[1]

C2_StagesInOrder ==
    notebook = "regression" =>
        /\ "RevenueModel" \in bound => {"X", "y"} \subseteq bound
        /\ "RevenueGuide" \in bound => "RevenueModel" \in bound
        /\ Len(stepLog) > 0 => "RevenueGuide" \in bound
        /\ (plotted > 0 \/ draws > 0) => Len(stepLog) = EPOCHS
        /\ draws > 0 => plotted > 0

\* C2: in a top-to-bottom run of the regression notebook the stages come in the
\* order load, model, guide, train, visualize: the loss plot and every
\* posterior draw happen after all EPOCHS steps, and no svi.step follows the
\* first posterior draw.
C2_TrainThenVisualize ==
    /\ []C2_StagesInOrder
    /\ [][(notebook = "regression" /\ draws > 0) => stepLog' = stepLog]_vars

\* C2's case: the run is over, the curve is plotted and the posterior drawn.
C2_Witness ==
    /\ notebook = "regression"
    /\ pc = "done"
    /\ plotted = 1
    /\ draws = 1
    /\ Len(stepLog) = EPOCHS

C4_ClearedBeforeTraining ==
    /\ pc \in {"r_step", "v_step"} => clears = 1
    /\ (pc \in {"r_step", "v_step"} /\ stepLog = <<>>) => paramStore = {}
    /\ Len(stepLog) > 0 => clears = 1

\* C4's case: a re-executed training cell is about to take its first step.
C4_Witness ==
    /\ notebook = "vae"
    /\ reruns = 1
    /\ pc = "v_step"
    /\ "svi" \in bound
    /\ stepLog = <<>>
    /\ W > 0

EvalStmts == {"e_call", "e_init", "e_for", "e_loss", "e_normalize"}

\* C5: evaluate calls svi.evaluate_loss once for each batch of test_loader and
\* never svi.step: parameters and optimizer state are the same when it returns
\* as when it was called.
C5_EvaluateTakesNoStep ==
    /\ [](pc = "e_return" =>
             evalCalls = NBatches(Val(fill.loaders).test,
                                  Val(fill.loaders).batch_size))
    /\ [][(pc \in EvalStmts) =>
             (W' = W /\ optState' = optState /\ stepLog' = stepLog)]_vars

\* C5's case: evaluate has returned after several batches, on a trained model.
C5_Witness ==
    /\ pc = "e_return"
    /\ evalCalls >= 2
    /\ W > 0

\* C6: the entry appended to loss for an epoch is the sum of the epoch's
\* svi.step results divided by the number of batches of train_loader.
C6_NormalizedByBatches ==
    (notebook = "vae" /\ pc = "v_print") =>
        SameNumber(loss[Len(loss)],
                   TrueDiv(epoch_loss, NBatches(Val(fill.loaders).train,
                                                Val(fill.loaders).batch_size)))

\* C7: in RevenueModel.forward the noise of the "obs" site is sampled for each
\* observation: the "noise" site holds one value for every (row, product)
\* pair, the shape of y_hat.
C7_NoisePerObservation ==
    trace # None => Val(trace).noise = Val(trace).y_hat

\* C8: Decoder.forward returns, for a batch of N latent vectors, a tensor of
\* shape (N, 1, 28, 28): the reshape keeps the number of samples.
C8_DecoderKeepsBatch ==
    decoded # None =>
        Val(decoded).out = Some(<<Val(decoded).n, ImgC, ImgH, ImgW>>)

\* C9: latent vectors have 32 dimensions everywhere: Encoder.forward returns
\* z_loc and z_scale of shape (N, 32), VAE.z_dim is 32, and the Decoder takes
\* input of shape (N, 32).
C9_Latent32 ==
    /\ encoded # None =>
           Val(encoded).out = <<Some(<<Val(encoded).n, LatentDim>>),
                                Some(<<Val(encoded).n, LatentDim>>)>>
    /\ vae # None => Val(vae).z_dim = Some(LatentDim)
    /\ decoded # None => (Val(decoded).width = LatentDim /\ Val(decoded).out # None)

\* C10: when the template's training cell is executed again (the cell that
\* builds vae, optimizer and svi is not), training starts from a state that
\* does not depend on the steps of the earlier execution: the parameters and
\* the optimizer state are those the construction cell left.
C10_RerunStartsAfresh ==
    (notebook = "vae" /\ reruns > 0 /\ pc = "v_step" /\ stepLog = <<>>) =>
        (W = 0 /\ optState = 0)

\* The smallest and the largest value of product p's column of the tensor d.
ColMin(d, p) == CHOOSE v \in {d[r][p] : r \in DOMAIN d} :
                    \A r \in DOMAIN d : v <= d[r][p]

ColMax(d, p) == CHOOSE v \in {d[r][p] : r \in DOMAIN d} :
                    \A r \in DOMAIN d : v >= d[r][p]

\* C11: the bias prior of the RevenueModel the training cell builds is uniform
\* between the minimum and the maximum of the targets: for each product, its
\* lower bound is the minimum and its upper bound the maximum of that
\* product's column of y.
C11_BiasPriorSpansTargets ==
    model # None =>
        \A p \in 1..sales_products :
            /\ Val(model).bias_low[p] = ColMin(y, p)
            /\ Val(model).bias_high[p] = ColMax(y, p)

\* The sum of the entries first..last of a sequence of numbers.
RECURSIVE SumOf(_, _, _)
SumOf(seq, first, last) ==
    IF first > last THEN 0 ELSE seq[first] + SumOf(seq, first + 1, last)

\* The batches of one epoch of the template's training loop.
TrainBatches == NBatches(Val(fill.loaders).train, Val(fill.loaders).batch_size)

AfterUnpacking == {"v_clear", "v_loss", "v_range", "v_for", "v_epoch_loss",
                   "v_batch_for", "v_step", "v_normalize", "v_append",
                   "v_print", "v_plot"}

\* The statements of the cells below the template's training cell.
BelowTraining == (StmtsOf("vae") \cup {"done"}) \
                     (UNION {{VaeCells[i][j] : j \in 1..Len(VaeCells[i])} :
                                 i \in 1..CellOf("vae", "v_epochs")})

\* C13: in the template as shipped, executing the cells never takes a
\* training step: the training cell stops with an error at the unpacking
\* train_loader, test_loader = None, so no statement after it in that cell
\* is executed (neither pyro.clear_param_store() nor the loop), svi.step is
\* never called, and the name loss is never bound.
C13_ShippedNeverTrains ==
    (notebook = "vae" /\ fill = Shipped) =>
        /\ pc \notin AfterUnpacking
        /\ clears = 0
        /\ stepLog = <<>>
        /\ W = 0
        /\ optState = 0
        /\ "loss" \notin bound
        /\ pc \in BelowTraining => <<"v_loaders", "TypeError">> \in errors

\* C13's case: the shipped template has been executed to the end.
C13_Witness ==
    /\ notebook = "vae"
    /\ fill = Shipped
    /\ pc = "done"
    /\ <<"v_loaders", "TypeError">> \in errors

====
